---- MODULE Spec2Model ----
(***************************************************************************)
(* html-tool (src/main.go): locations are read from stdin; URL locations   *)
(* are fetched through a gahttp pipeline whose callback hands a target to  *)
(* an unbuffered channel, file locations are opened and handed over by the *)
(* main goroutine, and one consumer goroutine extracts, prints and closes. *)
(***************************************************************************)
EXTENDS Integers, Sequences, FiniteSets, TLC

\* ---------------------------------------------------------------- bounds
MaxLines == 3
Concurrency == 2
MaxVals == 2
MaxToks == 2
MaxTagToks == 5
Delay == 2
MaxTime == 5

\* ------------------------------------------------------------- definitions
\* Mutation: a second consumer goroutine ranges over the same channel.
TwoConsumers == 1 + 1

\* wg.Add(1) and the single `go func()` that ranges over targets.
NumConsumers == 1

Consumers == 1..NumConsumers

\* Mutation: the pool is configured one worker too large.
PoolSizePlusOne == Concurrency + 1

\* p.SetConcurrency(concurrency): the size of the pipeline's worker pool.
PoolSize == Concurrency

LineIds == 1..MaxLines

\* An input line after TrimSpace: whether it carries the http:/https: prefix,
\* and whether acquiring it succeeds (http.NewRequest for a URL, os.Open for
\* a file path).
LineKinds == [url : BOOLEAN, ok : BOOLEAN]

\* Mutation: the prefix test accepts every line, so file paths are fetched.
AlwaysURL(l) == TRUE

\* strings.HasPrefix(nl, "http:") || strings.HasPrefix(nl, "https:")
IsURL(l) == l.url

\* What client.Do hands to the callback: a response with an open body and no
\* error, an error with no response, or an error together with a response
\* whose body the transport has already closed (a failed redirect check).
FetchOutcomes ==
    { [err |-> FALSE, resp |-> TRUE],
      [err |-> TRUE,  resp |-> FALSE],
      [err |-> TRUE,  resp |-> TRUE] }

Modes == {"tags", "attribs", "comments", "query", "other"}

\* A document as the strategy sees it: how many values it yields when read to
\* the end (none, or MaxVals of them), and whether reading it fails.
Docs == [n : {0, MaxVals}, rerr : BOOLEAN]

\* ------------------------------------------------------------------ strings
\* A string is a sequence of one-character strings.
Letters == {"a", "c", "d", "h", "p", "s", "t", "x", "H", "P", "S", "T"}

\* strings.ToLower, one character.
LowerCh(ch) ==
    CASE ch = "H" -> "h"
      [] ch = "P" -> "p"
      [] ch = "S" -> "s"
      [] ch = "T" -> "t"
      [] OTHER -> ch

\* strings.ToLower
ToLower(str) == [i \in 1..Len(str) |-> LowerCh(str[i])]

\* strings.HasPrefix
HasPrefix(str, pre) ==
    /\ Len(str) >= Len(pre)
    /\ SubSeq(str, 1, Len(pre)) = pre

Min(S) == CHOOSE m \in S : \A n \in S : m <= n

\* url.ParseRequestURI: the scheme is the leading run of letters (and, after
\* the first character, dots) when a colon ends it; without a scheme the
\* string must start with a slash; after a scheme, "//" introduces the host,
\* which runs to the next slash, and the rest is the path; a scheme followed
\* by anything not starting with a slash is an opaque URL.
ParseRequestURI(str) ==
    LET bad == [ok |-> FALSE, scheme |-> << >>, host |-> << >>, path |-> << >>]
        stops == {i \in 1..Len(str) :
                    ~(str[i] \in Letters \/ (str[i] = "." /\ i > 1))}
        i0 == IF stops = {} THEN 0 ELSE Min(stops)
        hasScheme == i0 > 1 /\ str[i0] = ":"
        scheme == IF hasScheme THEN ToLower(SubSeq(str, 1, i0 - 1)) ELSE << >>
        rest == IF hasScheme THEN SubSeq(str, i0 + 1, Len(str)) ELSE str
    IN  IF str = << >> THEN bad
        ELSE IF i0 = 1 /\ str[1] = ":" THEN bad
        ELSE IF ~HasPrefix(rest, << "/" >>)
             THEN IF hasScheme
                  THEN [ok |-> TRUE, scheme |-> scheme, host |-> << >>,
                        path |-> << >>]
                  ELSE bad
        ELSE IF hasScheme /\ HasPrefix(rest, << "/", "/" >>)
             THEN LET auth == SubSeq(rest, 3, Len(rest))
                      sl == {j \in 1..Len(auth) : auth[j] = "/"}
                      cut == IF sl = {} THEN Len(auth) + 1 ELSE Min(sl)
                  IN  [ok |-> TRUE, scheme |-> scheme,
                       host |-> SubSeq(auth, 1, cut - 1),
                       path |-> SubSeq(auth, cut, Len(auth))]
        ELSE [ok |-> TRUE, scheme |-> scheme, host |-> << >>, path |-> rest]

\* ----------------------------------------------------------- extractAttribs

\* Mutation: the prefixes are tested without their colon.
NormalizesNoColon(nl, attrib) ==
    \/ HasPrefix(nl, << "h", "t", "t", "p" >>)
    \/ /\ HasPrefix(nl, << "h", "t", "t", "p", "s" >>)
       /\ attrib \in {"src", "href"}

\* strings.HasPrefix(nl, "http:") || strings.HasPrefix(nl, "https:") &&
\* (attrib == "src" || attrib == "href"): && binds tighter than ||.
Normalizes(nl, attrib) ==
    \/ HasPrefix(nl, << "h", "t", "t", "p", ":" >>)
    \/ /\ HasPrefix(nl, << "h", "t", "t", "p", "s", ":" >>)
       /\ attrib \in {"src", "href"}

\* Mutation: the "/" test comes before the "//" test, so a protocol-relative
\* value is treated as root-relative.
AttribEmitSlashFirst(loc, attrib, val) ==
    IF Normalizes(ToLower(loc), attrib)
    THEN LET u == ParseRequestURI(loc)
             base == u.scheme \o << ":", "/", "/" >> \o u.host
         IN  IF HasPrefix(val, << "/" >>)
             THEN [out |-> << base \o val >>, panic |-> FALSE]
             ELSE IF ~ParseRequestURI(val).ok
                  THEN [out |-> << base \o u.path \o val >>, panic |-> FALSE]
             ELSE [out |-> << val >>, panic |-> FALSE]
    ELSE [out |-> << val >>, panic |-> FALSE]

\* What one matching (attribute, requested name) pair appends to out, and
\* whether it dereferences the nil URL of a location that did not parse.
AttribEmit(loc, attrib, val) ==
    IF Normalizes(ToLower(loc), attrib)
    THEN LET u == ParseRequestURI(loc)
             pre == IF u.ok THEN << >> ELSE << val >>
             base == u.scheme \o << ":", "/", "/" >> \o u.host
         IN  IF HasPrefix(val, << "/", "/" >>)
             THEN [out |-> pre \o << << "h", "t", "t", "p", "s", ":" >> \o val >>,
                   panic |-> FALSE]
             ELSE IF HasPrefix(val, << "/" >>)
                  THEN [out |-> pre \o (IF u.ok THEN << base \o val >> ELSE << >>),
                        panic |-> ~u.ok]
             ELSE IF ~ParseRequestURI(val).ok
                  THEN [out |-> pre \o (IF u.ok THEN << base \o u.path \o val >>
                                        ELSE << >>),
                        panic |-> ~u.ok]
             ELSE [out |-> pre \o << val >>, panic |-> FALSE]
    ELSE [out |-> << val >>, panic |-> FALSE]

\* The (attribute, requested name) pairs of one token in loop order: for each
\* attribute with a non-empty value, each requested name equal to its key.
RECURSIVE MatchesOf(_, _)
MatchesOf(a, attribs) ==
    IF attribs = << >> \/ a.val = << >>
    THEN << >>
    ELSE (IF Head(attribs) = a.key THEN << a >> ELSE << >>)
         \o MatchesOf(a, Tail(attribs))

RECURSIVE Matches(_, _)
Matches(attrs, attribs) ==
    IF attrs = << >>
    THEN << >>
    ELSE MatchesOf(Head(attrs), attribs) \o Matches(Tail(attrs), attribs)

\* The body of the tokenizer loop for one token: the emissions of its
\* matching pairs, up to the first one that panics.
RECURSIVE EmitAll(_, _)
EmitAll(loc, ms) ==
    IF ms = << >>
    THEN [log |-> << >>, panic |-> FALSE]
    ELSE LET e == AttribEmit(loc, Head(ms).key, Head(ms).val)
             here == [key |-> Head(ms).key, val |-> Head(ms).val, out |-> e.out]
         IN  IF e.panic
             THEN [log |-> << here >>, panic |-> TRUE]
             ELSE LET r == EmitAll(loc, Tail(ms))
                  IN  [log |-> << here >> \o r.log, panic |-> r.panic]

RECURSIVE Flatten(_)
Flatten(log) ==
    IF log = << >> THEN << >> ELSE Head(log).out \o Flatten(Tail(log))

\* Locations a target can carry: URLs (lower and upper case scheme) and
\* file paths, one of which merely starts with the letters http.
Locations ==
    { << "h", "t", "t", "p", ":", "/", "/", "h", "/", "d", "/", "p" >>,
      << "h", "t", "t", "p", "s", ":", "/", "/", "h", "/", "d", "/", "p" >>,
      << "H", "T", "T", "P", "S", ":", "/", "/", "h", "/", "p" >>,
      << "H", "t", "t", "p", ":", "/", "/", "h" >>,
      << "d", "/", "p" >>,
      << "/", "d", "/", "p" >>,
      << "h", "t", "t", "p", "s", ".", "h" >> }

\* Attribute values: empty, protocol-relative, root-relative, path-relative,
\* absolute.
AttrValues ==
    { << >>,
      << "/", "/", "c", "/", "a" >>,
      << "/", "a" >>,
      << "a" >>,
      << "h", "t", "t", "p", ":", "/", "/", "c", "/", "a" >> }

AttrKeys == {"src", "href", "class"}

Attrs == [key : AttrKeys, val : AttrValues]

\* The attribute lists a token can carry: none, one attribute, or a pair.
TokenAttrs ==
    {<< >>} \cup {<< a >> : a \in Attrs}
            \cup {<< a, b >> : a \in {x \in Attrs : x.key = "class"},
                               b \in {x \in Attrs : x.key = "href"}}

\* The requested attribute names (args).
AttribArgs == { << "src" >>, << "class" >>, << "href", "class" >>,
                << "src", "href" >> }

VARIABLES
    mode,          \* flag.Arg(0)
    selOK,         \* whether css.Parse accepts flag.Arg(1)
    lines,         \* the input lines scanned so far
    mainPc,        \* position of the main goroutine
    reqsClosed,    \* p.Done() has closed the pipeline's request channel
    targetsClosed, \* close(targets) has run
    running,       \* the pipeline has started its workers
    fetching,      \* requests a worker is fetching
    sending,       \* requests whose callback is blocked on `targets <- t`
    wExited,       \* number of workers that have left their loop
    callbacks,     \* per line: number of times its callback was invoked
    fetchErr,      \* per line: the callback was given a non-nil error
    consumer,      \* per consumer goroutine: position, target, lines printed
    body,          \* per line: state of its target's stream
    produced,      \* per line: a target was created for it
    closes,        \* per line: number of t.r.Close() calls
    drained,       \* per line: the strategy read the stream to its end
    vals,          \* per line: number of values the strategy returned (-1: none yet)
    recvOrder,     \* target ids in the order the consumer received them
    stdout,        \* lines printed, each <<target id, index>>
    diag,          \* per line: diagnostics written to stderr for it
    aPc,           \* extractAttribs: "off", "run", "done" or "panic"
    aLoc,          \* extractAttribs: tar.location
    aArgs,         \* extractAttribs: attribs
    aToks,         \* extractAttribs: tokens read so far
    aLast,         \* extractAttribs: emissions of the last token
    aOut           \* extractAttribs: out

VARIABLES
    tPc,           \* extractTags: "off", "outer", "inner" or "done"
    tTags,         \* extractTags: tags
    tDoc,          \* extractTags: the tokens z.Next() has returned so far
    tCur,          \* extractTags: t.Data of the start tag being matched
    tI,            \* extractTags: index of the matching name in tags
    tErr,          \* extractTags: the tokenizer has returned html.ErrorToken
    tOut,          \* extractTags: out
    now,           \* rate limiter: the clock
    rGlobal,       \* rate limiter: one gate for all hosts, or one per host
    rCeil,         \* rate limiter: the concurrency ceiling of the run
    rHosts,        \* rate limiter: host of each submitted request
    rTimes,        \* rate limiter: dispatch time of each request, -1 before
    rState         \* rate limiter: "queued", "gate", "fetch" or "done"

cfgVars == << mode, selOK >>
mainVars == << lines, mainPc, reqsClosed, targetsClosed >>
poolVars == << running, fetching, sending, wExited, callbacks, fetchErr >>
consVars == << consumer, recvOrder >>
streamVars == << body, produced, closes >>
outVars == << drained, vals, stdout, diag >>
runVars == << cfgVars, mainVars, poolVars, consVars, streamVars, outVars >>
attribVars == << aPc, aLoc, aArgs, aToks, aLast, aOut >>

tagsVars == << tPc, tTags, tDoc, tCur, tI, tErr, tOut >>
rateVars == << now, rGlobal, rCeil, rHosts, rTimes, rState >>
pureVars == << attribVars, tagsVars, rateVars >>

vars == << runVars, pureVars >>

\* The process has ended: main returned, every goroutine is gone.
Exited == mainPc \in {"exit", "fatal"}

\* Workers sitting in `for r := range p.reqs`, ready to take a request.
IdleWorkers ==
    IF running
    THEN PoolSize - wExited - Cardinality(fetching) - Cardinality(sending)
    ELSE 0

\* Requests in flight: dispatched by a worker, callback not yet returned.
InFlight == fetching \cup sending

\* The state of the run right after main has started the consumer.
RunInit(modes) ==
    /\ mode \in modes
    /\ selOK \in BOOLEAN
    /\ (mode # "query" => selOK)
    /\ lines = << >>
    /\ mainPc = "scan"
    /\ reqsClosed = FALSE
    /\ targetsClosed = FALSE
    /\ running = FALSE
    /\ fetching = {}
    /\ sending = {}
    /\ wExited = 0
    /\ callbacks = [i \in LineIds |-> 0]
    /\ fetchErr = [i \in LineIds |-> FALSE]
    /\ consumer = [c \in Consumers |-> [pc |-> "recv", cur |-> 0, k |-> 0]]
    /\ body = [i \in LineIds |-> "none"]
    /\ produced = [i \in LineIds |-> FALSE]
    /\ closes = [i \in LineIds |-> 0]
    /\ drained = [i \in LineIds |-> FALSE]
    /\ vals = [i \in LineIds |-> -1]
    /\ recvOrder = << >>
    /\ stdout = << >>
    /\ diag = [i \in LineIds |-> << >>]

\* extractAttribs is not running.
AttribsOff ==
    /\ aPc = "off"
    /\ aLoc = << >>
    /\ aArgs = << >>
    /\ aToks = 0
    /\ aLast = << >>
    /\ aOut = << >>

\* extractTags is not running.
TagsOff ==
    /\ tPc = "off"
    /\ tTags = << >>
    /\ tDoc = << >>
    /\ tCur = ""
    /\ tI = 0
    /\ tErr = FALSE
    /\ tOut = << >>

\* No request has reached the rate limiter.
RateOff ==
    /\ now = 0
    /\ rGlobal = TRUE
    /\ rCeil = 0
    /\ rHosts = << >>
    /\ rTimes = << >>
    /\ rState = << >>

Init ==
    /\ RunInit(Modes)
    /\ AttribsOff
    /\ TagsOff
    /\ RateOff

\* ------------------------------------------------------------ main goroutine

\* Mutation: the request error is skipped with `continue`.
RequestErrorContinues == "scan"

\* Where main goes when http.NewRequest fails: `return`.
OnRequestError == "fatal"

\* Mutation: the open error ends main with `return`.
OpenErrorReturns == "fatal"

\* Where main goes when os.Open fails: `continue`.
OnOpenError == "scan"

\* One iteration of `for sc.Scan()` up to the point where it blocks or loops.
\* Pipeline.Do starts the workers on its first call.
ScanLine ==
    /\ mainPc = "scan"
    /\ Len(lines) < MaxLines
    /\ \E l \in LineKinds :
        LET i == Len(lines) + 1 IN
        /\ lines' = Append(lines, l)
        /\ IF IsURL(l)
           THEN IF ~l.ok
                THEN /\ diag' = [diag EXCEPT ![i] = Append(@, "request")]
                     /\ mainPc' = OnRequestError
                     /\ UNCHANGED << running, streamVars >>
                ELSE /\ running' = TRUE
                     /\ mainPc' = "do"
                     /\ UNCHANGED << diag, streamVars >>
           ELSE IF ~l.ok
                THEN /\ diag' = [diag EXCEPT ![i] = Append(@, "open")]
                     /\ mainPc' = OnOpenError
                     /\ UNCHANGED << running, streamVars >>
                ELSE /\ body' = [body EXCEPT ![i] = "open"]
                     /\ produced' = [produced EXCEPT ![i] = TRUE]
                     /\ mainPc' = "send"
                     /\ UNCHANGED << running, closes, diag >>
    /\ UNCHANGED pureVars
    /\ UNCHANGED << cfgVars, reqsClosed, targetsClosed, fetching, sending,
                    wExited, callbacks, fetchErr, consVars, drained, vals,
                    stdout >>

\* sc.Scan() returns false: input is exhausted.
ScanEOF ==
    /\ mainPc = "scan"
    /\ mainPc' = "pdone"
    /\ UNCHANGED pureVars
    /\ UNCHANGED << cfgVars, lines, reqsClosed, targetsClosed, poolVars,
                    consVars, streamVars, outVars >>

\* p.Done()
PDone ==
    /\ mainPc = "pdone"
    /\ reqsClosed' = TRUE
    /\ mainPc' = "pwait"
    /\ UNCHANGED pureVars
    /\ UNCHANGED << cfgVars, lines, targetsClosed, poolVars, consVars,
                    streamVars, outVars >>

\* Mutation: p.Wait() is left out.
NoPipelineWait == TRUE

\* What p.Wait() waits for: every started worker has left its loop.
AllWorkersExited == running => wExited = PoolSize

\* p.Wait()
PWait ==
    /\ mainPc = "pwait"
    /\ AllWorkersExited
    /\ mainPc' = "close"
    /\ UNCHANGED pureVars
    /\ UNCHANGED << cfgVars, lines, reqsClosed, targetsClosed, poolVars,
                    consVars, streamVars, outVars >>

\* Mutation: main goes on to wg.Wait() without closing the channel.
CloseTargetsSkipped ==
    /\ mainPc = "close"
    /\ mainPc' = "wgwait"
    /\ UNCHANGED pureVars
    /\ UNCHANGED << cfgVars, lines, reqsClosed, targetsClosed, poolVars,
                    consVars, streamVars, outVars >>

\* close(targets)
CloseTargets ==
    /\ mainPc = "close"
    /\ targetsClosed' = TRUE
    /\ mainPc' = "wgwait"
    /\ UNCHANGED pureVars
    /\ UNCHANGED << cfgVars, lines, reqsClosed, poolVars, consVars,
                    streamVars, outVars >>

\* Mutation: wg.Wait() is left out.
NoConsumerWait == TRUE

\* What wg.Wait() waits for: the consumer has called wg.Done().
ConsumersDone == \A c \in Consumers : consumer[c].pc = "exited"

\* wg.Wait(), then main returns.
WgWait ==
    /\ mainPc = "wgwait"
    /\ ConsumersDone
    /\ mainPc' = "exit"
    /\ UNCHANGED pureVars
    /\ UNCHANGED << cfgVars, lines, reqsClosed, targetsClosed, poolVars,
                    consVars, streamVars, outVars >>

\* ----------------------------------------------------------- handoff channel

\* The receiving half of `targets <- t` / `for t := range targets`.
Receive(c, i) ==
    /\ consumer[c].pc = "recv"
    /\ consumer' = [consumer EXCEPT ![c] = [pc |-> "extract", cur |-> i, k |-> 0]]
    /\ recvOrder' = Append(recvOrder, i)

\* targets <- &target{location, f}: main hands a file target to the consumer.
MainSend(c) ==
    /\ ~Exited
    /\ mainPc = "send"
    /\ ~targetsClosed
    /\ Receive(c, Len(lines))
    /\ mainPc' = "scan"
    /\ UNCHANGED pureVars
    /\ UNCHANGED << cfgVars, lines, reqsClosed, targetsClosed, poolVars,
                    streamVars, outVars >>

\* ------------------------------------------------------------ fetch pipeline

\* p.Do(req, fn): the request passes from main to an idle worker.
WorkerTake ==
    /\ ~Exited
    /\ mainPc = "do"
    /\ IdleWorkers > 0
    /\ fetching' = fetching \cup {Len(lines)}
    /\ mainPc' = "scan"
    /\ UNCHANGED pureVars
    /\ UNCHANGED << cfgVars, lines, reqsClosed, targetsClosed, running,
                    sending, wExited, callbacks, fetchErr, consVars,
                    streamVars, outVars >>

\* `if resp != nil && resp.Body != nil`: the callback goes on to push a target.
PushesTarget(o) == o.resp

\* The fetch ends and the callback runs up to its channel send (or returns).
WorkerFetch(i) ==
    /\ ~Exited
    /\ i \in fetching
    /\ \E o \in FetchOutcomes :
        /\ callbacks' = [callbacks EXCEPT ![i] = @ + 1]
        /\ fetchErr' = [fetchErr EXCEPT ![i] = o.err]
        /\ diag' = [diag EXCEPT ![i] = IF o.err THEN Append(@, "fetch") ELSE @]
        /\ fetching' = fetching \ {i}
        /\ IF PushesTarget(o)
           THEN /\ body' = [body EXCEPT ![i] = IF o.err THEN "closed" ELSE "open"]
                /\ produced' = [produced EXCEPT ![i] = TRUE]
                /\ sending' = sending \cup {i}
           ELSE UNCHANGED << body, produced, sending >>
    /\ UNCHANGED pureVars
    /\ UNCHANGED << cfgVars, mainVars, running, wExited, consVars, closes,
                    drained, vals, stdout >>

\* targets <- &target{req.URL.String(), resp.Body}, then the callback returns.
WorkerSend(i, c) ==
    /\ ~Exited
    /\ i \in sending
    /\ ~targetsClosed
    /\ Receive(c, i)
    /\ sending' = sending \ {i}
    /\ UNCHANGED pureVars
    /\ UNCHANGED << cfgVars, mainVars, running, fetching, wExited, callbacks,
                    fetchErr, streamVars, outVars >>

\* A worker's range over the request channel ends once it is closed.
WorkerExit ==
    /\ ~Exited
    /\ IdleWorkers > 0
    /\ reqsClosed
    /\ wExited' = wExited + 1
    /\ UNCHANGED pureVars
    /\ UNCHANGED << cfgVars, mainVars, running, fetching, sending, callbacks,
                    fetchErr, consVars, streamVars, outVars >>

\* ---------------------------------------------------------------- consumer

\* The `switch mode` of the consumer: the number of values returned, the
\* diagnostic printed, and whether the strategy read the stream to its end.
Dispatch(m, sel, open, d) ==
    CASE m \in {"tags", "attribs", "comments"} ->
            [n |-> IF open THEN d.n ELSE 0, diag |-> << >>, drained |-> TRUE]
      [] m = "query" ->
            IF ~sel
            THEN [n |-> 0, diag |-> << "selector" >>, drained |-> FALSE]
            ELSE IF ~open \/ d.rerr
                 THEN [n |-> 0, diag |-> << "selector" >>, drained |-> TRUE]
                 ELSE [n |-> d.n, diag |-> << >>, drained |-> TRUE]
      [] OTHER ->
            [n |-> 0, diag |-> << "mode" >>, drained |-> FALSE]

\* The strategy runs on the received target.
Extract(c) ==
    /\ ~Exited
    /\ consumer[c].pc = "extract"
    /\ \E d \in Docs :
        LET i == consumer[c].cur
            r == Dispatch(mode, selOK, body[i] = "open", d)
        IN  /\ vals' = [vals EXCEPT ![i] = r.n]
            /\ diag' = [diag EXCEPT ![i] = @ \o r.diag]
            /\ drained' = [drained EXCEPT ![i] = r.drained]
    /\ consumer' = [consumer EXCEPT ![c].pc = "print"]
    /\ UNCHANGED pureVars
    /\ UNCHANGED << cfgVars, mainVars, poolVars, recvOrder, streamVars,
                    stdout >>

\* One turn of `for _, v := range vals { fmt.Println(v) }`.
PrintLine(c) ==
    /\ ~Exited
    /\ consumer[c].pc = "print"
    /\ consumer[c].k < vals[consumer[c].cur]
    /\ stdout' = Append(stdout, << consumer[c].cur, consumer[c].k + 1 >>)
    /\ consumer' = [consumer EXCEPT ![c].k = @ + 1]
    /\ UNCHANGED pureVars
    /\ UNCHANGED << cfgVars, mainVars, poolVars, recvOrder, streamVars,
                    drained, vals, diag >>

\* Mutation: the consumer goes back to the range without closing the reader.
CloseSkipped == "open"

\* The state of a Target's stream after t.r.Close().
AfterClose == "closed"

\* t.r.Close(), then back to the range.
CloseStream(c) ==
    /\ ~Exited
    /\ consumer[c].pc = "print"
    /\ consumer[c].k = vals[consumer[c].cur]
    /\ closes' = [closes EXCEPT ![consumer[c].cur] = @ + 1]
    /\ body' = [body EXCEPT ![consumer[c].cur] = AfterClose]
    /\ consumer' = [consumer EXCEPT ![c] = [pc |-> "recv", cur |-> 0, k |-> 0]]
    /\ UNCHANGED pureVars
    /\ UNCHANGED << cfgVars, mainVars, poolVars, recvOrder, produced, outVars >>

\* The range ends on the closed channel; wg.Done().
ConsumerExit(c) ==
    /\ ~Exited
    /\ consumer[c].pc = "recv"
    /\ targetsClosed
    /\ consumer' = [consumer EXCEPT ![c].pc = "exited"]
    /\ UNCHANGED pureVars
    /\ UNCHANGED << cfgVars, mainVars, poolVars, recvOrder, streamVars,
                    outVars >>

Next ==
    \/ ScanLine
    \/ ScanEOF
    \/ PDone
    \/ PWait
    \/ CloseTargets
    \/ WgWait
    \/ \E c \in Consumers : MainSend(c)
    \/ WorkerTake
    \/ \E i \in LineIds : WorkerFetch(i)
    \/ \E i \in LineIds, c \in Consumers : WorkerSend(i, c)
    \/ WorkerExit
    \/ \E c \in Consumers : Extract(c)
    \/ \E c \in Consumers : PrintLine(c)
    \/ \E c \in Consumers : CloseStream(c)
    \/ \E c \in Consumers : ConsumerExit(c)

Spec == Init /\ [][Next]_vars

\* The run under a scheduler that lets some runnable goroutine take its next
\* step, and with every fetch completing.
SpecLive == Spec /\ WF_vars(Next)

\* ----------------------------------------- extractAttribs on its own inputs

InitAttribs ==
    /\ RunInit({"attribs"})
    /\ TagsOff
    /\ RateOff
    /\ aPc = "run"
    /\ aLoc \in Locations
    /\ aArgs \in AttribArgs
    /\ aToks = 0
    /\ aLast = << >>
    /\ aOut = << >>

\* z.Next() yields a token; the loop body runs over its attributes.
AttribsToken ==
    /\ aPc = "run"
    /\ aToks < MaxToks
    /\ \E attrs \in TokenAttrs :
        LET r == EmitAll(aLoc, Matches(attrs, aArgs)) IN
        /\ aLast' = r.log
        /\ aOut' = aOut \o Flatten(r.log)
        /\ aPc' = IF r.panic THEN "panic" ELSE "run"
    /\ aToks' = aToks + 1
    /\ UNCHANGED << aLoc, aArgs, runVars, tagsVars, rateVars >>

\* z.Next() yields html.ErrorToken: the loop ends and out is returned.
AttribsEnd ==
    /\ aPc = "run"
    /\ aPc' = "done"
    /\ UNCHANGED << aLoc, aArgs, aToks, aLast, aOut, runVars, tagsVars,
                    rateVars >>

NextAttribs == AttribsToken \/ AttribsEnd

SpecAttribs == InitAttribs /\ [][NextAttribs]_vars

\* ------------------------------------------------------------------ claims

\* The consumer has received the target of line i.
Received(i) == \E p \in DOMAIN recvOrder : recvOrder[p] = i

\* Number of stdout lines that belong to the target of line i.
Printed(i) == Cardinality({p \in DOMAIN stdout : stdout[p][1] = i})

ReadIds == 1..Len(lines)

FileOK(i) == ~lines[i].url /\ lines[i].ok
OpenFailed(i) == ~lines[i].url /\ ~lines[i].ok
RequestFailed(i) == lines[i].url /\ ~lines[i].ok
Submitted(i) == lines[i].url /\ lines[i].ok

\* C1: every target the consumer received has its stream closed exactly
\* once: never twice, and not left unclosed once the process has ended.
C1_ClosedExactlyOnce ==
    \A i \in LineIds :
        /\ closes[i] <= 1
        /\ (Exited /\ Received(i)) => closes[i] = 1

\* C2: the handoff channel is closed only after input is exhausted, the
\* request channel is closed and every submitted fetch's callback has
\* returned; no producer is sending once it is closed; and main waits for
\* the consumer only after the close.
C2_ShutdownOrder ==
    /\ targetsClosed =>
          /\ mainPc \in {"wgwait", "exit"}
          /\ reqsClosed
          /\ InFlight = {}
          /\ \A i \in ReadIds : Submitted(i) => callbacks[i] = 1
          /\ \A i \in ReadIds : produced[i] => Received(i)
    /\ mainPc \in {"wgwait", "exit"} => targetsClosed

C2_Witness ==
    /\ targetsClosed
    /\ \E i \in ReadIds : Submitted(i) /\ produced[i]
    /\ \E i \in ReadIds : FileOK(i)

\* C3: when main returns after input exhaustion, every target that was
\* produced has been received, has had all its values printed and has been
\* closed.
C3_AllProcessedAtExit ==
    mainPc = "exit" =>
        \A i \in ReadIds :
            produced[i] =>
                /\ Received(i)
                /\ vals[i] >= 0
                /\ Printed(i) = vals[i]
                /\ closes[i] = 1

C3_Witness ==
    /\ mainPc = "exit"
    /\ \E i, j \in ReadIds :
          /\ Submitted(i) /\ produced[i] /\ Printed(i) = MaxVals
          /\ FileOK(j) /\ Printed(j) = MaxVals

\* C4: at most Concurrency fetches are in flight, a fetch counting from its
\* dispatch until its callback has returned.
C4_InFlightBound == Cardinality(InFlight) <= Concurrency

C4_Witness ==
    /\ Cardinality(InFlight) = Concurrency
    /\ sending # {}
    /\ mainPc = "do"

\* C5: a file open failure, a transport failure or a strategy error leaves a
\* diagnostic and no output line for its own target; it never aborts the run;
\* and at exit every line whose target could be produced has been processed
\* and its output printed.
C5_FailuresIsolated ==
    /\ \A i \in ReadIds :
          /\ OpenFailed(i) =>
                diag[i] = << "open" >> /\ ~produced[i] /\ Printed(i) = 0
          /\ fetchErr[i] =>
                diag[i] # << >> /\ diag[i][1] = "fetch" /\ Printed(i) = 0
          /\ (vals[i] >= 0 /\ (mode = "other" \/ (mode = "query" /\ ~selOK))) =>
                /\ diag[i] # << >>
                /\ diag[i][Len(diag[i])] \in {"selector", "mode"}
                /\ Printed(i) = 0
          /\ (diag[i] # << >> /\ diag[i][Len(diag[i])] \in {"selector", "mode"}) =>
                vals[i] = 0 /\ Printed(i) = 0
    /\ mainPc = "fatal" => RequestFailed(Len(lines))
    /\ mainPc = "exit" =>
          \A i \in ReadIds :
              /\ FileOK(i) => produced[i]
              /\ Submitted(i) => callbacks[i] = 1
              /\ (Submitted(i) /\ ~fetchErr[i]) => produced[i]
              /\ produced[i] => vals[i] >= 0 /\ Printed(i) = vals[i]

C5_Witness ==
    /\ mainPc = "exit"
    /\ \E i, j, k \in ReadIds :
          /\ OpenFailed(i)
          /\ Submitted(j) /\ fetchErr[j]
          /\ i < k /\ j < k /\ Printed(k) = MaxVals

\* C6: a request-construction failure leaves its diagnostic and ends the
\* run at once: the failing line is the last line ever read, and nothing
\* happens after main has returned.
C6_RequestErrorFatal ==
    /\ [](\A i \in ReadIds :
            RequestFailed(i) =>
                /\ i = Len(lines)
                /\ mainPc = "fatal"
                /\ diag[i] = << "request" >>)
    /\ [][mainPc = "fatal" => UNCHANGED vars]_vars

C6_Witness ==
    /\ mainPc = "fatal"
    /\ Len(lines) = 2
    /\ InFlight # {}

\* C7: the callback of a submitted request fires once and pushes at most one
\* target; given a transport error it prints a diagnostic and pushes no
\* target.
C7_NoTargetOnError ==
    \A i \in ReadIds :
        /\ callbacks[i] <= 1
        /\ fetchErr[i] => (diag[i] # << >> /\ diag[i][1] = "fetch" /\ ~produced[i])

\* C8: the output lines of one target are printed contiguously and in the
\* order the strategy produced them.
C8_OutputContiguous ==
    \A p \in DOMAIN stdout :
        IF stdout[p][2] = 1
        THEN \A r \in 1..(p - 1) : stdout[r][1] # stdout[p][1]
        ELSE /\ p > 1
             /\ stdout[p - 1] = << stdout[p][1], stdout[p][2] - 1 >>

C8_Witness ==
    /\ Len(stdout) = 2 * MaxVals
    /\ stdout[1][1] > stdout[Len(stdout)][1]

\* C9: file targets are received, and their output printed, in input order,
\* however URL targets interleave with them.
C9_FileOrder ==
    /\ \A p, q \in DOMAIN recvOrder :
          (p < q /\ ~lines[recvOrder[p]].url /\ ~lines[recvOrder[q]].url)
              => recvOrder[p] < recvOrder[q]
    /\ \A p, q \in DOMAIN stdout :
          (p < q /\ ~lines[stdout[p][1]].url /\ ~lines[stdout[q][1]].url)
              => stdout[p][1] <= stdout[q][1]

C9_Witness ==
    /\ Len(recvOrder) = 3
    /\ FileOK(recvOrder[1]) /\ FileOK(recvOrder[3])
    /\ Submitted(recvOrder[2]) /\ recvOrder[2] < recvOrder[1]
    /\ Printed(recvOrder[1]) = MaxVals /\ Printed(recvOrder[3]) = MaxVals

\* The origin is an HTTP(S) location: its lower-cased form starts with
\* http: or https:.
IsHTTPOrigin(loc) ==
    \/ HasPrefix(ToLower(loc), << "h", "t", "t", "p", ":" >>)
    \/ HasPrefix(ToLower(loc), << "h", "t", "t", "p", "s", ":" >>)

\* C10: in Attribs mode a matching non-empty attribute is normalized exactly
\* when the origin is HTTP(S) and its name is src or href; in every other
\* case its raw value is emitted unchanged.
C10_NormalizeOnlySrcHref ==
    \A p \in DOMAIN aLast :
        LET e == aLast[p] IN
        /\ Normalizes(ToLower(aLoc), e.key)
              <=> (IsHTTPOrigin(aLoc) /\ e.key \in {"src", "href"})
        /\ ~(IsHTTPOrigin(aLoc) /\ e.key \in {"src", "href"})
              => e.out = << e.val >>

\* C11: in Attribs mode on a file-path origin every matching non-empty
\* attribute value is emitted verbatim, whatever its name and shape, and out
\* grows by exactly those values.
C11_FileOriginVerbatim ==
    ~IsHTTPOrigin(aLoc) =>
        /\ aPc # "panic"
        /\ \A p \in DOMAIN aLast : aLast[p].out = << aLast[p].val >>
        /\ \A q \in DOMAIN aOut : aOut[q] \in AttrValues \ {<< >>}

C11_Witness ==
    /\ ~IsHTTPOrigin(aLoc)
    /\ HasPrefix(aLoc, << "h", "t", "t", "p" >>)
    /\ \E p \in DOMAIN aLast :
          /\ aLast[p].key = "href"
          /\ aLast[p].val = << "/", "a" >>
    /\ \E q \in DOMAIN aOut : aOut[q] = << "/", "/", "c", "/", "a" >>

\* The first slash of the origin's authority ("//" follows the scheme's colon),
\* and from it the origin's scheme, host and path as the claim names them.
OriginColon(loc) == Min({i \in 1..Len(loc) : loc[i] = ":"})
OriginScheme(loc) == ToLower(SubSeq(loc, 1, OriginColon(loc) - 1))
OriginAfter(loc) == SubSeq(loc, OriginColon(loc) + 3, Len(loc))
OriginHost(loc) ==
    LET a == OriginAfter(loc)
        sl == {j \in 1..Len(a) : a[j] = "/"}
    IN  IF sl = {} THEN a ELSE SubSeq(a, 1, Min(sl) - 1)
OriginPath(loc) ==
    SubSeq(OriginAfter(loc), Len(OriginHost(loc)) + 1, Len(OriginAfter(loc)))

\* The value carries a scheme of its own: letters up to a colon.
IsAbsoluteValue(v) ==
    \E i \in 2..Len(v) :
        /\ v[i] = ":"
        /\ \A j \in 1..(i - 1) : v[j] \in Letters

\* The string the claim prescribes for value v on an HTTP(S) origin.
ExpectedNormalized(loc, v) ==
    LET base == OriginScheme(loc) \o << ":", "/", "/" >> \o OriginHost(loc) IN
    IF Len(v) >= 2 /\ v[1] = "/" /\ v[2] = "/"
    THEN << "h", "t", "t", "p", "s", ":" >> \o v
    ELSE IF v[1] = "/"
         THEN base \o v
    ELSE IF IsAbsoluteValue(v)
         THEN v
    ELSE base \o OriginPath(loc) \o v

\* C12: on an HTTP(S) origin a requested src/href attribute with non-empty
\* value v emits exactly one string: "https:"+v for "//...", S://H+v for
\* "/...", v itself when it is an absolute URL, else S://H+P+v.
C12_NormalizationRule ==
    IsHTTPOrigin(aLoc) =>
        \A p \in DOMAIN aLast :
            aLast[p].key \in {"src", "href"} =>
                aLast[p].out = << ExpectedNormalized(aLoc, aLast[p].val) >>

C12_Witness ==
    /\ aLoc = << "H", "T", "T", "P", "S", ":", "/", "/", "h", "/", "p" >>
    /\ aOut = << << "h", "t", "t", "p", "s", ":", "/", "/", "c", "/", "a" >>,
                 << "h", "t", "t", "p", "s", ":", "/", "/", "h", "/", "p", "a" >> >>


\* ---------------------------------------------------------------------------
\* extractTags (Tags mode), one action per z.Next() call.
\* ---------------------------------------------------------------------------

TagNames == {"a", "b"}

\* The text between two tags, as a sequence of characters.
Texts == { << "x" >>, << " ", "x", " " >>, << " " >> }

TagTokens ==
    [type : {"start", "end"}, data : TagNames] \cup [type : {"text"}, data : Texts]

\* The requested tag names, args[1:] of the command line.
TagArgs == { << "a" >>, << "b" >>, << "a", "b" >>, << "a", "a" >> }

RECURSIVE TrimLeft(_)
TrimLeft(str) ==
    IF str # << >> /\ Head(str) = " " THEN TrimLeft(Tail(str)) ELSE str

RECURSIVE TrimRight(_)
TrimRight(str) ==
    IF str # << >> /\ str[Len(str)] = " "
    THEN TrimRight(SubSeq(str, 1, Len(str) - 1))
    ELSE str

TrimSpace(str) == TrimRight(TrimLeft(str))

\* The tokenizer never returns two text tokens in a row.
CanFollow(doc, tok) ==
    ~(tok.type = "text" /\ doc # << >> /\ doc[Len(doc)].type = "text")

\* The first index from j on at which tags names the start tag data, or 0:
\* where `for _, tag := range tags` next finds t.Data == tag.
NextMatch(tags, data, j) ==
    LET js == { k \in j..Len(tags) : tags[k] = data }
    IN  IF js = {} THEN 0 ELSE CHOOSE k \in js : \A m \in js : k <= m

\* Where extractTags goes after the range loop reached index j.
AfterMatch(j) == IF j = 0 THEN "outer" ELSE "inner"

InitTags ==
    /\ RunInit({"tags"})
    /\ AttribsOff
    /\ RateOff
    /\ tPc = "outer"
    /\ tTags \in TagArgs
    /\ tDoc = << >>
    /\ tCur = ""
    /\ tI = 0
    /\ tErr = FALSE
    /\ tOut = << >>

\* tt := z.Next() of the outer loop returns a token.
TagsOuter ==
    /\ tPc = "outer"
    /\ ~tErr
    /\ Len(tDoc) < MaxTagToks
    /\ \E tok \in TagTokens :
        /\ CanFollow(tDoc, tok)
        /\ tDoc' = Append(tDoc, tok)
        /\ IF tok.type = "start"
           THEN LET j == NextMatch(tTags, tok.data, 1)
                IN  /\ tCur' = tok.data
                    /\ tI' = j
                    /\ tPc' = AfterMatch(j)
           ELSE UNCHANGED << tCur, tI, tPc >>
    /\ UNCHANGED << tTags, tErr, tOut, runVars, attribVars, rateVars >>

\* tt := z.Next() of the outer loop returns html.ErrorToken: break.
TagsEnd ==
    /\ tPc = "outer"
    /\ tPc' = "done"
    /\ tErr' = TRUE
    /\ UNCHANGED << tTags, tDoc, tCur, tI, tOut, runVars, attribVars, rateVars >>

\* z.Next() inside the range loop returns a token; a text token whose trimmed
\* data is not empty is appended to out.
TagsInner ==
    /\ tPc = "inner"
    /\ ~tErr
    /\ Len(tDoc) < MaxTagToks
    /\ \E tok \in TagTokens :
        /\ CanFollow(tDoc, tok)
        /\ tDoc' = Append(tDoc, tok)
        /\ tOut' = IF tok.type = "text" /\ TrimSpace(tok.data) # << >>
                   THEN Append(tOut, TrimSpace(tok.data))
                   ELSE tOut
    /\ LET j == NextMatch(tTags, tCur, tI + 1)
       IN  /\ tI' = j
           /\ tPc' = AfterMatch(j)
    /\ UNCHANGED << tTags, tCur, tErr, runVars, attribVars, rateVars >>

\* z.Next() inside the range loop returns html.ErrorToken, which is not a
\* text token; the tokenizer keeps returning it.
TagsInnerError ==
    /\ tPc = "inner"
    /\ tErr' = TRUE
    /\ LET j == NextMatch(tTags, tCur, tI + 1)
       IN  /\ tI' = j
           /\ tPc' = AfterMatch(j)
    /\ UNCHANGED << tTags, tDoc, tCur, tOut, runVars, attribVars, rateVars >>

NextTags ==
    \/ TagsOuter
    \/ TagsEnd
    \/ TagsInner
    \/ TagsInnerError

SpecTags == InitTags /\ [][NextTags]_vars

\* The document is a sequence of <tag>text</tag> and <tag></tag> elements
\* whose names are all requested.
RECURSIVE WellFormed(_, _)
WellFormed(doc, tags) ==
    \/ doc = << >>
    \/ /\ Len(doc) >= 2
       /\ doc[1].type = "start"
       /\ \E k \in DOMAIN tags : tags[k] = doc[1].data
       /\ \/ /\ doc[2] = [type |-> "end", data |-> doc[1].data]
             /\ WellFormed(SubSeq(doc, 3, Len(doc)), tags)
          \/ /\ Len(doc) >= 3
             /\ doc[2].type = "text"
             /\ doc[3] = [type |-> "end", data |-> doc[1].data]
             /\ WellFormed(SubSeq(doc, 4, Len(doc)), tags)

\* The trimmed non-empty texts that directly follow a requested start tag, in
\* document order.
RECURSIVE FollowTexts(_, _)
FollowTexts(doc, tags) ==
    IF Len(doc) < 2 THEN << >>
    ELSE LET rest == FollowTexts(Tail(doc), tags)
         IN  IF /\ doc[1].type = "start"
                /\ \E k \in DOMAIN tags : tags[k] = doc[1].data
                /\ doc[2].type = "text"
                /\ TrimSpace(doc[2].data) # << >>
             THEN << TrimSpace(doc[2].data) >> \o rest
             ELSE rest

\* C13: on a document that is a sequence of well-formed <tag>text</tag>
\* elements whose names are all requested, Tags mode emits exactly the trimmed
\* non-empty element texts, in document order.
C13_WellFormedTexts ==
    (tPc = "done" /\ WellFormed(tDoc, tTags)) => tOut = FollowTexts(tDoc, tTags)

\* The same statement restricted to a list of requested names without
\* repetition.
C13_DistinctNames ==
    (/\ tPc = "done"
     /\ WellFormed(tDoc, tTags)
     /\ \A j, k \in DOMAIN tTags : tTags[j] = tTags[k] => j = k)
        => tOut = FollowTexts(tDoc, tTags)

\* C16: every matching start tag consumes exactly the one token after it and
\* emits that token's trimmed text when it is a non-empty text token, also
\* when the start tag directly follows another matching start tag.
C16_EveryStartTagExamined ==
    tPc = "done" => tOut = FollowTexts(tDoc, tTags)

\* The same statement restricted to a list of requested names without
\* repetition.
C16_DistinctNames ==
    (tPc = "done" /\ \A j, k \in DOMAIN tTags : tTags[j] = tTags[k] => j = k)
        => tOut = FollowTexts(tDoc, tTags)


\* The mode name or the selector of the run is invalid.
ConfigInvalid == mode = "other" \/ (mode = "query" /\ ~selOK)

\* The lines for whose Target the configuration diagnostic has been written.
ConfigReports ==
    { i \in LineIds : \E p \in DOMAIN diag[i] : diag[i][p] \in {"selector", "mode"} }

\* C14: an invalid mode name or selector is reported exactly once per run, not
\* once per Target, and contributes no output line.
C14_ConfigErrorReportedOnce ==
    ConfigInvalid =>
        /\ Cardinality(ConfigReports) <= 1
        /\ stdout = << >>
        /\ (mainPc = "exit" /\ recvOrder # << >>) => Cardinality(ConfigReports) = 1

\* C17: a stream the consumer has closed was read to its end by the strategy,
\* whatever the mode.
C17_DrainedBeforeClose ==
    \A i \in LineIds : closes[i] >= 1 => drained[i]



\* The Targets whose stream is open and not yet closed.
OpenTargets == { i \in LineIds : body[i] = "open" }

\* The file Target main is blocked handing off.
HeldByMain == IF mainPc = "send" THEN { Len(lines) } ELSE {}

\* The Target the consumer has received and not yet closed.
HeldByConsumer ==
    { consumer[c].cur : c \in { d \in Consumers : consumer[d].cur # 0 } }

RECURSIVE SumTo(_, _)
SumTo(f, n) == IF n = 0 THEN 0 ELSE f[n] + SumTo(f, n - 1)

\* How far main has come: two per line read, one less while it is blocked
\* submitting or handing off that line, then one per shutdown step.
MainProgress ==
    2 * Len(lines)
        + CASE mainPc = "scan" -> 0
            [] mainPc \in {"do", "send"} -> -1
            [] mainPc \in {"pdone", "fatal"} -> 1
            [] mainPc = "pwait" -> 2
            [] mainPc = "close" -> 3
            [] mainPc = "wgwait" -> 4
            [] mainPc = "exit" -> 5

\* How far consumer c has come in its loop.
ConsumerProgress(c) ==
    CASE consumer[c].pc = "recv" -> 0
      [] consumer[c].pc = "extract" -> 1
      [] consumer[c].pc = "print" -> 2
      [] consumer[c].pc = "exited" -> 1

\* A measure every step of the run increases; it is bounded because the
\* input is finite.
Progress ==
    MainProgress
        + SumTo(callbacks, MaxLines)
        + wExited
        + Len(recvOrder)
        + Len(stdout)
        + 3 * SumTo(closes, MaxLines)
        + SumTo([c \in Consumers |-> ConsumerProgress(c)], NumConsumers)

\* C18: nobody stays blocked and the run ends.  Until main has returned some
\* party can take a step, every step brings the run nearer to its end, and
\* main returns early only on a request-construction failure.
C18_TerminatesNoDeadlock ==
    /\ [](Exited \/ ENABLED Next)
    /\ [](mainPc = "fatal" => \E i \in ReadIds : RequestFailed(i))
    /\ [][Progress' > Progress]_vars

\* The same under a fair scheduler: a run in which no request construction
\* fails reaches the return of main after wg.Wait().
C18_Terminates ==
    <>(mainPc = "exit" \/ \E i \in ReadIds : RequestFailed(i))

\* Main has returned after a run that handed off file and fetched Targets.
C18_Witness ==
    /\ mainPc = "exit"
    /\ Len(lines) = MaxLines
    /\ \A i \in ReadIds : ~RequestFailed(i)
    /\ \E i \in ReadIds : FileOK(i) /\ Received(i)
    /\ \E i \in ReadIds : Submitted(i) /\ Received(i)
    /\ \A c \in Consumers : consumer[c].pc = "exited"
    /\ targetsClosed



\* ---------------------------------------------------------------------------
\* The pipeline's rate limiter over a discrete clock.
\* ---------------------------------------------------------------------------

Hosts == {"h", "c"}

\* Mutation: the pipeline is given no delay.
NoRateLimit == Delay - Delay

\* p.SetRateLimitMillis(delayMs)
RateDelay == Delay

\* The requests whose fetch has been dispatched.
Dispatched == { k \in DOMAIN rTimes : rTimes[k] >= 0 }

\* The requests a worker holds: waiting at the gate or being fetched.
Held == { k \in DOMAIN rState : rState[k] \in {"gate", "fetch"} }

\* The gate lets request k through: the delay has passed since every earlier
\* dispatch it is spaced from (all of them, or those to the same host).
GateOpen(k) ==
    \A j \in Dispatched :
        (rGlobal \/ rHosts[j] = rHosts[k]) => now >= rTimes[j] + RateDelay

InitRate ==
    /\ RunInit({"tags"})
    /\ AttribsOff
    /\ TagsOff
    /\ now = 0
    /\ rGlobal \in BOOLEAN
    /\ rCeil \in 1..Concurrency
    /\ rHosts \in UNION { [1..n -> Hosts] : n \in 1..MaxLines }
    /\ rTimes = [k \in DOMAIN rHosts |-> -1]
    /\ rState = [k \in DOMAIN rHosts |-> "queued"]

\* A free worker takes the next submitted request.
RateTake ==
    /\ Cardinality(Held) < rCeil
    /\ \E k \in DOMAIN rState :
        /\ rState[k] = "queued"
        /\ \A j \in 1..(k - 1) : rState[j] # "queued"
        /\ rState' = [rState EXCEPT ![k] = "gate"]
    /\ UNCHANGED << now, rGlobal, rCeil, rHosts, rTimes, runVars, attribVars,
                    tagsVars >>

\* The gate opens for a held request and its fetch is dispatched.
RateDispatch ==
    /\ \E k \in DOMAIN rState :
        /\ rState[k] = "gate"
        /\ GateOpen(k)
        /\ rTimes' = [rTimes EXCEPT ![k] = now]
        /\ rState' = [rState EXCEPT ![k] = "fetch"]
    /\ UNCHANGED << now, rGlobal, rCeil, rHosts, runVars, attribVars, tagsVars >>

\* A fetch completes and its worker is free again.
RateFetchDone ==
    /\ \E k \in DOMAIN rState :
        /\ rState[k] = "fetch"
        /\ rState' = [rState EXCEPT ![k] = "done"]
    /\ UNCHANGED << now, rGlobal, rCeil, rHosts, rTimes, runVars, attribVars,
                    tagsVars >>

\* Time passes.
RateTick ==
    /\ now < MaxTime
    /\ now' = now + 1
    /\ UNCHANGED << rGlobal, rCeil, rHosts, rTimes, rState, runVars,
                    attribVars, tagsVars >>

NextRate ==
    \/ RateTake
    \/ RateDispatch
    \/ RateFetchDone
    \/ RateTick

SpecRate == InitRate /\ [][NextRate]_vars

AllFetched == \A k \in DOMAIN rState : rState[k] = "done"

SameHost == \A j, k \in DOMAIN rHosts : rHosts[j] = rHosts[k]

====
